---- MODULE Spec2Model ----
(***************************************************************************)
(* De_SpeedTester: two measurement programs that log to a time-series      *)
(* store.                                                                  *)
(*   main.py   - one bandwidth cycle: optional game-status gate, the       *)
(*               speedtest probe, one write to the store.                  *)
(*   pinger.py - a repeating latency loop: ping, write, sleep, until the  *)
(*               duration elapses or the user interrupts.                  *)
(* The variables prefixed m_ (and the lol_ configuration) belong to        *)
(* main.py, those prefixed p_ to pinger.py.  External collaborators (HTTP, *)
(* subprocesses, the store, the clock) are inputs drawn with \E from the   *)
(* outcomes their calls can produce.                                       *)
(***************************************************************************)
EXTENDS Integers, Sequences, FiniteSets, TLC

VARIABLES
    \* ---- main.py ----
    m_pc,            \* position in main(): start, resolve, gate, probe,
                     \* write_open, write_point, done, idle
    lol_api_key,     \* main.py:183
    lol_puuid,       \* main.py:184, reassigned at main.py:198
    lol_region,      \* main.py:185
    game_name,       \* main.py:186
    tag_line,        \* main.py:187
    m_outcome,       \* how main() ended
    m_resolveCalls,  \* HTTP requests issued by get_puuid_from_riot_id
    m_statusCalls,   \* HTTP requests issued by is_in_league_game_v5
    m_resolve,       \* the account lookup's response and what it returned
    m_gate,          \* last status response and what the check returned
    m_probeCalls,    \* calls of run_speedtest
    m_probe,         \* result of run_speedtest
    m_writeCalls,    \* calls of write_to_influx
    m_open,          \* store connections held open: subset of {client, write_api}
    m_issued,        \* point writes issued to the store by write_to_influx
    m_write,         \* how the point write of the last call went
    m_points,        \* points the store accepted
    \* ---- pinger.py ----
    p_pc,            \* position in main(): start, loop, probe, open, write,
                     \* sleep, done, idle
    p_cfg,           \* which keys pinger_config.json's influxdb section has
    now,             \* time.time()
    start_time,      \* pinger.py:90
    p_timestamp,     \* pinger.py:95
    p_success,       \* pinger.py:98
    p_response_time, \* pinger.py:98
    p_exit,          \* why the loop ended
    p_cycles,        \* loop bodies entered
    p_writeCalls,    \* calls of write_to_influx
    p_writeReturns,  \* calls of write_to_influx that returned normally
    p_open,          \* store connections held open
    p_issued,        \* point writes issued to the store in the current call
    p_write,         \* how the point write of the last call went
    p_points,        \* points the store accepted
    \* ---- pinger.py, ping_target called on its own ----
    pt_pc,           \* call, returned, idle
    pt_result,       \* what subprocess.run does (pinger.py:44)
    pt_return        \* what ping_target returned or raised

mvars == <<m_pc, lol_api_key, lol_puuid, lol_region, game_name, tag_line,
           m_outcome, m_resolveCalls, m_statusCalls, m_resolve, m_gate,
           m_probeCalls, m_probe, m_writeCalls, m_open, m_issued, m_write,
           m_points>>

pvars == <<p_pc, p_cfg, now, start_time, p_timestamp, p_success,
           p_response_time, p_exit, p_cycles, p_writeCalls, p_writeReturns,
           p_open, p_issued, p_write, p_points>>

ptvars == <<pt_pc, pt_result, pt_return>>

vars == <<mvars, pvars, ptvars>>

(***************************************************************************)
(* Python values                                                           *)
(***************************************************************************)
None == "<None>"

\* Python truthiness of a configuration value: None and "" are falsy.
Truthy(x) == x \notin {None, ""}

Raised(exc) == [raised |-> TRUE, exc |-> exc]

Returned(v) == [raised |-> FALSE, ret |-> v]

(***************************************************************************)
(* main.py: region routing                                                 *)
(***************************************************************************)
REGIONAL_ROUTING ==
    [ na1 |-> "americas", br1 |-> "americas", lan1 |-> "americas",
      las1 |-> "americas", oce1 |-> "americas",
      euw1 |-> "europe", eun1 |-> "europe", tr1 |-> "europe", ru |-> "europe",
      jp1 |-> "asia", kr |-> "asia" ]

\* Variant that falls back to the European route for a code the table does
\* not list.
get_regional_domain_default(platform_region) ==
    IF platform_region \notin DOMAIN REGIONAL_ROUTING
    THEN Returned("europe.api.riotgames.com")
    ELSE Returned(REGIONAL_ROUTING[platform_region] \o ".api.riotgames.com")

\* Lines 36-40.
get_regional_domain(platform_region) ==
    IF platform_region \notin DOMAIN REGIONAL_ROUTING
    THEN Raised("ValueError")
    ELSE Returned(REGIONAL_ROUTING[platform_region] \o ".api.riotgames.com")

(***************************************************************************)
(* main.py: the HTTP calls to the game API.  requests.get returns a        *)
(* response with a status code, or raises requests.RequestException.       *)
(***************************************************************************)
StatusCodes == {200, 404, 403, 429, 500, 503}

NetworkError == [kind |-> "neterr"]

\* Responses to the status query: the body is not read.
StatusResponses ==
    [kind : {"status"}, code : StatusCodes] \cup {NetworkError}

\* Responses to the account lookup: on 200 the body is a JSON object that
\* may or may not carry a "puuid" member.
ResolveResponses ==
    [kind : {"status"}, code : StatusCodes, puuid : {"P-fetched", "", None}]
        \cup {NetworkError}

\* Variant that returns str(data.get("puuid")): a body without the member
\* gives the text "None".
get_puuid_from_riot_id_str(region, resp) ==
    LET regional_domain == get_regional_domain(region)
    IN  IF regional_domain.raised
        THEN [raised |-> TRUE, exc |-> regional_domain.exc, requests |-> 0]
        ELSE IF resp.kind = "neterr"
             THEN [raised |-> FALSE, ret |-> None, requests |-> 1,
                   host |-> regional_domain.ret]
             ELSE IF resp.code = 200
                  THEN [raised |-> FALSE,
                        ret |-> IF resp.puuid = None THEN "None"
                                ELSE resp.puuid,
                        requests |-> 1,
                        host |-> regional_domain.ret]
                  ELSE [raised |-> FALSE, ret |-> None, requests |-> 1,
                        host |-> regional_domain.ret]

\* The result also records how many HTTP requests the call issued, none when
\* get_regional_domain raises (main.py:45 precedes the request), and the
\* host of the url built at line 48.
get_puuid_from_riot_id(region, resp) ==
    LET regional_domain == get_regional_domain(region)
    IN  IF regional_domain.raised
        THEN [raised |-> TRUE, exc |-> regional_domain.exc, requests |-> 0]
        ELSE IF resp.kind = "neterr"
             THEN [raised |-> FALSE, ret |-> None, requests |-> 1,
                   host |-> regional_domain.ret]
             ELSE IF resp.code = 200
                  THEN [raised |-> FALSE, ret |-> resp.puuid, requests |-> 1,
                        host |-> regional_domain.ret]
                  ELSE [raised |-> FALSE, ret |-> None, requests |-> 1,
                        host |-> regional_domain.ret]

\* The status check without its except clause: the network error escapes.
is_in_league_game_v5_uncaught(resp) ==
    IF resp.kind = "neterr"
    THEN Raised("RequestException")
    ELSE Returned(resp.code = 200)

is_in_league_game_v5(resp) ==
    IF resp.kind = "neterr"
    THEN Returned(FALSE)
    ELSE IF resp.code = 200
         THEN Returned(TRUE)
         ELSE IF resp.code = 404
              THEN Returned(FALSE)
              ELSE Returned(FALSE)

(***************************************************************************)
(* main.py: the bandwidth probe                                            *)
(***************************************************************************)
\* Python floats that the model needs are exact rationals num/den in lowest
\* terms.
RECURSIVE GCD(_, _)
GCD(a, b) == IF b = 0 THEN a ELSE GCD(b, a % b)

Float(num, den) ==
    LET g == GCD(num, den)
    IN  IF g = 0 THEN [num |-> 0, den |-> 1]
                 ELSE [num |-> num \div g, den |-> den \div g]

\* str.encode().decode("unicode_escape") on the location strings used here.
unicode_escape(location) ==
    CASE location = "Troms\\u00f8" -> "Troms<U+00F8>"
      [] OTHER -> location

Bandwidths == {1000000, 125000}

\* The JSON documents the speedtest CLI may print.  location = None: the
\* document has no server.location member.  missing: a member among those
\* write_to_influx reads that the document lacks (None: it lacks none).
\* packetLoss = <<>>: the document has no packetLoss member; <<n>>: it has
\* the member, with value n.
Documents ==
    [ location : {None, "Oslo", "Troms\\u00f8"},
      missing : {None, "ping", "isp"},
      packetLoss : {<<>>, <<0>>, <<3>>},
      download : Bandwidths,
      upload : Bandwidths ]

\* What subprocess.run(command, check=True) can do.
SpeedtestOutcomes ==
    {[kind |-> "oserror"]}
        \cup [kind : {"exit"}, code : {1, 2}]
        \cup [kind : {"exit"}, code : {0}, json : {FALSE}]
        \cup [kind : {"exit"}, code : {0}, json : {TRUE}, stdout : Documents]

run_speedtest(out) ==
    IF out.kind = "oserror"
    THEN Raised("FileNotFoundError")
    ELSE IF out.code # 0
         THEN Raised("RuntimeError: Speedtest CLI failed")
         ELSE IF ~out.json
              THEN Raised("RuntimeError: Failed to parse")
              ELSE IF out.stdout.location = None
                   THEN Raised("KeyError")
                   ELSE Returned([out.stdout EXCEPT
                            !.location = unicode_escape(out.stdout.location)])

(***************************************************************************)
(* main.py: the point write_to_influx builds (lines 113-165)               *)
(***************************************************************************)
\* Conversion that forgets the factor 8 from bytes to bits.
bandwidth_mbps_bytes(bandwidth) == Float(bandwidth, 1000000)

\* Lines 132 and 140: data[...]["bandwidth"] * 8 / 1e6.
bandwidth_mbps(bandwidth) == Float(bandwidth * 8, 1000000)

speed_point(data) ==
    IF data.missing # None
    THEN Raised("KeyError")
    ELSE Returned(
           [ measurement |-> "internet_speed",
             download_bandwidth_mbps |-> bandwidth_mbps(data.download),
             upload_bandwidth_mbps |-> bandwidth_mbps(data.upload),
             packet_loss |-> Float(IF data.packetLoss = <<>> THEN 0
                                   ELSE data.packetLoss[1], 1),
             server_location |-> data.location ])

(***************************************************************************)
(* main.py: write_to_influx (lines 106-174)                                *)
(***************************************************************************)
\* The finally block (lines 172-174) runs on every way out of the try block
\* and closes the write API and the client.
main_release(open, failed) == {}

\* Lines 108-111, before the try block: the configuration file is read again
\* and the client and its write API are constructed.  An exception of
\* load_config leaves the function before anything is opened.
main_write_to_influx_open(config_ok) ==
    IF ~config_ok
    THEN [raised |-> TRUE, exc |-> "FileNotFoundError", open |-> {}]
    ELSE [raised |-> FALSE, open |-> {"client", "write_api"}]

\* write_to_influx with a second attempt after a failed write.
main_write_to_influx_body_retry(data, open, store_ok) ==
    LET point == speed_point(data)
    IN  [ raised |-> FALSE,
          issued |-> IF point.raised THEN 0 ELSE IF store_ok THEN 1 ELSE 2,
          points |-> IF point.raised THEN {} ELSE {point.ret},
          write |-> IF point.raised THEN "build_failed" ELSE "written",
          open |-> {} ]

\* Lines 113-174: the try block builds the point and issues the write; any
\* Exception is caught at line 170; the finally block releases.
main_write_to_influx_body(data, open, store_ok) ==
    LET point == speed_point(data)
        issued == IF point.raised THEN 0 ELSE 1
        failed == point.raised \/ ~store_ok
    IN  [ raised |-> FALSE,
          issued |-> issued,
          points |-> IF failed THEN {} ELSE {point.ret},
          write |-> IF point.raised THEN "build_failed"
                    ELSE IF store_ok THEN "written" ELSE "store_failed",
          open |-> main_release(open, failed) ]

(***************************************************************************)
(* main.py: main() (lines 177-220)                                         *)
(***************************************************************************)
NotCalled == [called |-> FALSE]

\* The region codes of the table and some it does not list (the lookup is
\* case-sensitive).
Regions == (DOMAIN REGIONAL_ROUTING) \cup {"xx9", "EUW1", ""}

\* Lines 179-189: load_config() and the reads of the configuration.  A
\* missing or unreadable file raises out of main().
MLoadConfig ==
    /\ m_pc = "start"
    /\ \E config_ok \in BOOLEAN :
          IF config_ok
          THEN /\ m_pc' = "resolve"
               /\ UNCHANGED m_outcome
          ELSE /\ m_pc' = "done"
               /\ m_outcome' = "config_error"
    /\ UNCHANGED <<lol_api_key, lol_puuid, lol_region, game_name, tag_line,
                   m_resolveCalls, m_statusCalls, m_resolve, m_gate,
                   m_probeCalls,
                   m_probe, m_writeCalls, m_open, m_issued, m_write, m_points>>
    /\ UNCHANGED <<pvars, ptvars>>

\* Variant of the lookup condition that ignores a configured identifier.
resolve_wanted_always(api_key, puuid, name, tag) ==
    Truthy(api_key) /\ Truthy(name) /\ Truthy(tag)

\* Line 192: the condition of the account lookup.
resolve_wanted(api_key, puuid, name, tag) ==
    Truthy(api_key) /\ ~Truthy(puuid) /\ Truthy(name) /\ Truthy(tag)

\* Variant of the status-check condition that does not look at the API key.
gate_wanted_ignores_key(api_key, puuid) == Truthy(puuid)

\* Line 203: the condition of the status check.
gate_wanted(api_key, puuid) == Truthy(api_key) /\ Truthy(puuid)

\* Lines 191-200: the account lookup, attempted when there is a key, no
\* identifier, a display name and a tag.  The ValueError of
\* get_regional_domain is not caught and leaves main().
MResolve ==
    /\ m_pc = "resolve"
    /\ IF resolve_wanted(lol_api_key, lol_puuid, game_name, tag_line)
       THEN \E resp \in ResolveResponses :
              LET fetched == get_puuid_from_riot_id(lol_region, resp)
              IN  /\ m_resolveCalls' = m_resolveCalls + fetched.requests
                  /\ m_resolve' = [called |-> TRUE, resp |-> resp,
                                   result |-> fetched]
                  /\ IF fetched.raised
                     THEN /\ m_pc' = "done"
                          /\ m_outcome' = "region_error"
                          /\ UNCHANGED lol_puuid
                     ELSE /\ m_pc' = "gate"
                          /\ UNCHANGED m_outcome
                          /\ lol_puuid' = IF Truthy(fetched.ret)
                                          THEN fetched.ret ELSE lol_puuid
       ELSE /\ m_pc' = "gate"
            /\ UNCHANGED <<m_resolveCalls, m_resolve, m_outcome, lol_puuid>>
    /\ UNCHANGED <<lol_api_key, lol_region, game_name, tag_line,
                   m_statusCalls, m_gate, m_probeCalls, m_probe,
                   m_writeCalls, m_open, m_issued, m_write, m_points>>
    /\ UNCHANGED <<pvars, ptvars>>

\* main() without the return at line 207: the probe runs whatever the gate
\* says.
gate_branch_no_return(in_game) == [pc |-> "probe", outcome |-> "running"]

\* Lines 205-209: a True result returns from main(), a False one goes on to
\* the probe.
gate_branch(in_game) ==
    IF in_game
    THEN [pc |-> "done", outcome |-> "suppressed"]
    ELSE [pc |-> "probe", outcome |-> "running"]

\* Lines 202-211: the status check, made when there is a key and an
\* identifier.
MGate ==
    /\ m_pc = "gate"
    /\ IF gate_wanted(lol_api_key, lol_puuid)
       THEN \E resp \in StatusResponses :
              LET in_game == is_in_league_game_v5(resp)
              IN  /\ m_statusCalls' = m_statusCalls + 1
                  /\ m_gate' = [called |-> TRUE, resp |-> resp,
                                result |-> in_game]
                  /\ IF in_game.raised
                     THEN /\ m_pc' = "done"
                          /\ m_outcome' = "gate_error"
                     ELSE /\ m_pc' = gate_branch(in_game.ret).pc
                          /\ m_outcome' = gate_branch(in_game.ret).outcome
       ELSE /\ m_pc' = "probe"
            /\ UNCHANGED <<m_statusCalls, m_gate, m_outcome>>
    /\ UNCHANGED <<lol_api_key, lol_puuid, lol_region, game_name, tag_line,
                   m_resolveCalls, m_resolve, m_probeCalls, m_probe,
                   m_writeCalls, m_open, m_issued, m_write, m_points>>
    /\ UNCHANGED <<pvars, ptvars>>

\* No handler around the probe and the write: what they raise leaves main().
main_catches_nothing(exc) == FALSE

\* A handler that catches only the RuntimeError run_speedtest raises itself.
main_catches_runtime_only(exc) ==
    exc \in {"RuntimeError: Speedtest CLI failed", "RuntimeError: Failed to parse"}

\* Line 219: "except Exception" catches whatever the try block raises.
main_catches(exc) == TRUE

\* Lines 213-220: the probe; what it raises is caught at line 219 and main()
\* returns without calling write_to_influx.
MRunSpeedtest ==
    /\ m_pc = "probe"
    /\ \E out \in SpeedtestOutcomes :
          LET data == run_speedtest(out)
          IN  /\ m_probeCalls' = m_probeCalls + 1
              /\ m_probe' = [called |-> TRUE, result |-> data]
              /\ IF data.raised
                 THEN /\ m_pc' = "done"
                      /\ m_outcome' = IF main_catches(data.exc)
                                      THEN "probe_failed"
                                      ELSE "probe_error_escaped"
                 ELSE /\ m_pc' = "write_open"
                      /\ UNCHANGED m_outcome
    /\ UNCHANGED <<lol_api_key, lol_puuid, lol_region, game_name, tag_line,
                   m_resolveCalls, m_statusCalls, m_resolve, m_gate,
                   m_writeCalls,
                   m_open, m_issued, m_write, m_points>>
    /\ UNCHANGED <<pvars, ptvars>>

\* Line 218 into write_to_influx lines 108-111.  An exception here leaves
\* write_to_influx and is caught at line 219.
MWriteOpen ==
    /\ m_pc = "write_open"
    /\ \E config_ok \in BOOLEAN :
          LET opened == main_write_to_influx_open(config_ok)
          IN  /\ m_writeCalls' = m_writeCalls + 1
              /\ m_open' = opened.open
              /\ IF opened.raised
                 THEN /\ m_pc' = "done"
                      /\ m_outcome' = IF main_catches(opened.exc)
                                      THEN "write_raised"
                                      ELSE "write_error_escaped"
                      /\ m_write' = "not_opened"
                 ELSE /\ m_pc' = "write_point"
                      /\ UNCHANGED <<m_outcome, m_write>>
    /\ UNCHANGED <<lol_api_key, lol_puuid, lol_region, game_name, tag_line,
                   m_resolveCalls, m_statusCalls, m_resolve, m_gate,
                   m_probeCalls,
                   m_probe, m_issued, m_points>>
    /\ UNCHANGED <<pvars, ptvars>>

\* write_to_influx lines 113-174, then the return to main() and its end.
MWritePoint ==
    /\ m_pc = "write_point"
    /\ \E store_ok \in BOOLEAN :
          LET done == main_write_to_influx_body(m_probe.result.ret, m_open,
                                                store_ok)
          IN  /\ m_issued' = m_issued + done.issued
              /\ m_points' = m_points \cup done.points
              /\ m_write' = done.write
              /\ m_open' = done.open
              /\ m_pc' = "done"
              /\ m_outcome' = IF ~done.raised THEN "write_returned"
                              ELSE IF main_catches(done.exc)
                                   THEN "write_raised"
                                   ELSE "write_error_escaped"
    /\ UNCHANGED <<lol_api_key, lol_puuid, lol_region, game_name, tag_line,
                   m_resolveCalls, m_statusCalls, m_resolve, m_gate,
                   m_probeCalls,
                   m_probe, m_writeCalls>>
    /\ UNCHANGED <<pvars, ptvars>>

MNext ==
    \/ MLoadConfig
    \/ MResolve
    \/ MGate
    \/ MRunSpeedtest
    \/ MWriteOpen
    \/ MWritePoint

(***************************************************************************)
(* pinger.py: constants and the clock                                      *)
(***************************************************************************)
\* Time is counted in whole seconds.  pinger.py:12 sets DURATION to one day;
\* the model runs the same loop over a shorter day of MaxDuration seconds.
MaxDuration == 4

\* The longest a blocking call (the ping, the store write) may take.
MaxCallTime == 1

\* The longest ping output, in lines.
MaxLines == 2

TARGET == "google.com"

INTERVAL == 1

DURATION == MaxDuration

(***************************************************************************)
(* pinger.py: ping_target (lines 32-59)                                    *)
(***************************************************************************)
\* A line of ping's standard output either lacks "time=" or carries it,
\* followed by the token that runs up to the next space: "23.4" in
\* "time=23.4 ms" (Linux, macOS), "5ms" in "time=5ms TTL=117" (Windows), ""
\* when a space follows the marker directly.
PingLines ==
    {[marker |-> FALSE]} \cup [marker : {TRUE}, token : {"23.4", "5ms", ""}]

RECURSIVE SeqsUpTo(_, _)
SeqsUpTo(S, n) ==
    IF n = 0 THEN {<<>>}
    ELSE LET shorter == SeqsUpTo(S, n - 1)
         IN  shorter \cup {Append(q, x) : q \in shorter, x \in S}

\* What subprocess.run(command) can do: fail to start the command, or return
\* its exit code and output.
PingOutcomes ==
    {[kind |-> "oserror"]}
        \cup [kind : {"exit"}, returncode : {0, 1, 2},
              stdout : SeqsUpTo(PingLines, MaxLines)]

\* time_part.replace("ms", "")
replace_ms(time_part) ==
    CASE time_part = "5ms" -> "5"
      [] OTHER -> time_part

\* float(text)
float(text) ==
    CASE text = "23.4" -> Returned(Float(234, 10))
      [] text = "5" -> Returned(Float(5, 1))
      [] OTHER -> Raised("ValueError")

\* Lines 50-55: the first line with the marker decides.
RECURSIVE parse_response_time(_)
parse_response_time(lines) ==
    IF lines = <<>>
    THEN [found |-> FALSE]
    ELSE IF Head(lines).marker
         THEN [found |-> TRUE,
               value |-> float(replace_ms(Head(lines).token))]
         ELSE parse_response_time(Tail(lines))

\* ping_target without its except clause: a command that cannot be started
\* and a token that is no number raise.
ping_target_uncaught(out) ==
    IF out.kind = "oserror"
    THEN [raised |-> TRUE, exc |-> "FileNotFoundError"]
    ELSE IF out.returncode = 0
         THEN LET parsed == parse_response_time(out.stdout)
              IN  IF ~parsed.found
                  THEN [raised |-> FALSE, success |-> FALSE,
                        response_time |-> <<>>]
                  ELSE IF parsed.value.raised
                       THEN [raised |-> TRUE, exc |-> "ValueError"]
                       ELSE [raised |-> FALSE, success |-> TRUE,
                             response_time |-> <<parsed.value.ret>>]
         ELSE [raised |-> FALSE, success |-> FALSE, response_time |-> <<>>]

\* ping_target reporting success as soon as a line carries the marker, also
\* when what follows the marker is no number.
ping_target_success_without_time(out) ==
    IF out.kind = "oserror"
    THEN [raised |-> FALSE, success |-> FALSE, response_time |-> <<>>]
    ELSE IF out.returncode = 0
         THEN LET parsed == parse_response_time(out.stdout)
              IN  IF ~parsed.found
                  THEN [raised |-> FALSE, success |-> FALSE,
                        response_time |-> <<>>]
                  ELSE IF parsed.value.raised
                       THEN [raised |-> FALSE, success |-> TRUE,
                             response_time |-> <<>>]
                       ELSE [raised |-> FALSE, success |-> TRUE,
                             response_time |-> <<parsed.value.ret>>]
         ELSE [raised |-> FALSE, success |-> FALSE, response_time |-> <<>>]

\* ping_target without the test of the exit code at line 48: the output is
\* searched for the marker whatever the command returned.
ping_target_ignores_returncode(out) ==
    IF out.kind = "oserror"
    THEN [raised |-> FALSE, success |-> FALSE, response_time |-> <<>>]
    ELSE LET parsed == parse_response_time(out.stdout)
         IN  IF ~parsed.found \/ parsed.value.raised
             THEN [raised |-> FALSE, success |-> FALSE,
                   response_time |-> <<>>]
             ELSE [raised |-> FALSE, success |-> TRUE,
                   response_time |-> <<parsed.value.ret>>]

\* The pair ping_target returns; response_time is <<>> for None and <<t>>
\* for the number t.  The except clause at line 57 catches every Exception.
ping_target(out) ==
    IF out.kind = "oserror"
    THEN [raised |-> FALSE, success |-> FALSE, response_time |-> <<>>]
    ELSE IF out.returncode = 0
         THEN LET parsed == parse_response_time(out.stdout)
              IN  IF ~parsed.found
                  THEN [raised |-> FALSE, success |-> FALSE,
                        response_time |-> <<>>]
                  ELSE IF parsed.value.raised
                       THEN [raised |-> FALSE, success |-> FALSE,
                             response_time |-> <<>>]
                       ELSE [raised |-> FALSE, success |-> TRUE,
                             response_time |-> <<parsed.value.ret>>]
         ELSE [raised |-> FALSE, success |-> FALSE, response_time |-> <<>>]

(***************************************************************************)
(* pinger.py: write_to_influx (lines 62-85)                                *)
(***************************************************************************)
\* int(success)
int(b) == IF b THEN 1 ELSE 0

\* Lines 69-75.
ping_point(timestamp, success, response_time) ==
    [ measurement |-> "ping_results",
      target |-> TARGET,
      success |-> int(success),
      response_time |-> IF success THEN response_time ELSE <<>>,
      time |-> timestamp ]

\* A release placed at the end of the try block instead of in a finally
\* block: a failed write leaves the connection open.
pinger_release_on_success(open, failed) == IF failed THEN open ELSE {}

\* The finally block (lines 83-85) runs on every way out of the try block
\* and closes the write API and the client.
pinger_release(open, failed) == {}

\* Lines 64-65, before the try block: influx_config["url"], ["token"] and
\* ["org"] are read and the client and its write API constructed.  A missing
\* key raises KeyError out of write_to_influx before anything is opened.
pinger_write_to_influx_open(cfg) ==
    IF ~cfg.conn
    THEN [raised |-> TRUE, exc |-> "KeyError", open |-> {}]
    ELSE [raised |-> FALSE, open |-> {"client", "write_api"}]

\* write_to_influx without its except clause: a store failure leaves the
\* function as an exception (the finally block still releases).
pinger_write_to_influx_body_uncaught(cfg, timestamp, success, response_time, open, store_ok) ==
    LET point == ping_point(timestamp, success, response_time)
        failed == ~cfg.bucket \/ ~store_ok
    IN  [ raised |-> failed,
          exc |-> "ApiException",
          issued |-> IF cfg.bucket THEN 1 ELSE 0,
          points |-> IF failed THEN {} ELSE {point},
          write |-> IF ~cfg.bucket THEN "build_failed"
                    ELSE IF store_ok THEN "written" ELSE "store_failed",
          open |-> {} ]

\* Lines 67-85: the try block builds the point, reads influx_config["bucket"]
\* and issues the write; any Exception is caught at line 81; the finally
\* block releases.
pinger_write_to_influx_body(cfg, timestamp, success, response_time, open, store_ok) ==
    LET point == ping_point(timestamp, success, response_time)
        issued == IF cfg.bucket THEN 1 ELSE 0
        failed == ~cfg.bucket \/ ~store_ok
    IN  [ raised |-> FALSE,
          issued |-> issued,
          points |-> IF failed THEN {} ELSE {point},
          write |-> IF ~cfg.bucket THEN "build_failed"
                    ELSE IF store_ok THEN "written" ELSE "store_failed",
          open |-> pinger_release(open, failed) ]

(***************************************************************************)
(* pinger.py: main() (lines 88-110)                                        *)
(***************************************************************************)
\* pinger_config.json is read when the module is loaded (lines 28-29), which
\* only requires the "influxdb" section to exist.  conn: the section has
\* "url", "token" and "org"; bucket: it has "bucket".
PingerConfigs == [conn : BOOLEAN, bucket : BOOLEAN]

\* The loop test with <= for <: one more cycle starts at the deadline.
loop_condition_inclusive(t, started) == (t - started) <= DURATION

\* Line 93: the condition of the while loop.
loop_condition(t, started) == (t - started) < DURATION

\* Lines 89-90.
PStart ==
    /\ p_pc = "start"
    /\ start_time' = now
    /\ p_pc' = "loop"
    /\ UNCHANGED <<p_cfg, now, p_timestamp, p_success, p_response_time,
                   p_exit, p_cycles, p_writeCalls, p_writeReturns, p_open,
                   p_issued, p_write, p_points>>
    /\ UNCHANGED <<mvars, ptvars>>

\* Lines 93-95: the loop test and, when it passes, the cycle's timestamp;
\* when it fails the loop ends and main() runs its finally clause.
PLoop ==
    /\ p_pc = "loop"
    /\ IF loop_condition(now, start_time)
       THEN /\ p_pc' = "probe"
            /\ p_timestamp' = now
            /\ p_cycles' = p_cycles + 1
            /\ UNCHANGED p_exit
       ELSE /\ p_pc' = "done"
            /\ p_exit' = "duration"
            /\ UNCHANGED <<p_timestamp, p_cycles>>
    /\ UNCHANGED <<p_cfg, now, start_time, p_success, p_response_time,
                   p_writeCalls, p_writeReturns, p_open, p_issued, p_write,
                   p_points>>
    /\ UNCHANGED <<mvars, ptvars>>

\* Line 98: the ping, a blocking call.  An exception out of ping_target would
\* reach the handler at line 107, outside the loop.
PProbe ==
    /\ p_pc = "probe"
    /\ \E out \in PingOutcomes, took \in 0..MaxCallTime :
          LET result == ping_target(out)
          IN  /\ now' = now + took
              /\ IF result.raised
                 THEN /\ p_pc' = "done"
                      /\ p_exit' = "error"
                      /\ UNCHANGED <<p_success, p_response_time>>
                 ELSE /\ p_pc' = "open"
                      /\ p_success' = result.success
                      /\ p_response_time' = result.response_time
                      /\ UNCHANGED p_exit
    /\ UNCHANGED <<p_cfg, start_time, p_timestamp, p_cycles, p_writeCalls,
                   p_writeReturns, p_open, p_issued, p_write, p_points>>
    /\ UNCHANGED <<mvars, ptvars>>

\* Line 101 into write_to_influx lines 64-65.  The KeyError of a missing
\* connection setting leaves write_to_influx and reaches the handler at line
\* 107, outside the loop.
POpen ==
    /\ p_pc = "open"
    /\ LET opened == pinger_write_to_influx_open(p_cfg)
       IN  /\ p_writeCalls' = p_writeCalls + 1
           /\ p_issued' = 0
           /\ p_open' = opened.open
           /\ IF opened.raised
              THEN /\ p_pc' = "done"
                   /\ p_exit' = "error"
                   /\ p_write' = "not_opened"
              ELSE /\ p_pc' = "write"
                   /\ UNCHANGED <<p_exit, p_write>>
    /\ UNCHANGED <<p_cfg, now, start_time, p_timestamp, p_success,
                   p_response_time, p_cycles, p_writeReturns, p_points>>
    /\ UNCHANGED <<mvars, ptvars>>

\* write_to_influx lines 67-85, a blocking call, and its return to the loop.
PWrite ==
    /\ p_pc = "write"
    /\ \E store_ok \in BOOLEAN, took \in 0..MaxCallTime :
          LET done == pinger_write_to_influx_body(p_cfg, p_timestamp,
                          p_success, p_response_time, p_open, store_ok)
          IN  /\ now' = now + took
              /\ p_issued' = p_issued + done.issued
              /\ p_points' = p_points \cup done.points
              /\ p_write' = done.write
              /\ p_open' = done.open
              /\ IF done.raised
                 THEN /\ p_pc' = "done"
                      /\ p_exit' = "error"
                      /\ UNCHANGED p_writeReturns
                 ELSE /\ p_pc' = "sleep"
                      /\ p_writeReturns' = p_writeReturns + 1
                      /\ UNCHANGED p_exit
    /\ UNCHANGED <<p_cfg, start_time, p_timestamp, p_success,
                   p_response_time, p_cycles, p_writeCalls>>
    /\ UNCHANGED <<mvars, ptvars>>

\* Line 104: time.sleep(INTERVAL), then back to the loop test.
PSleep ==
    /\ p_pc = "sleep"
    /\ now' = now + INTERVAL
    /\ p_pc' = "loop"
    /\ UNCHANGED <<p_cfg, start_time, p_timestamp, p_success,
                   p_response_time, p_exit, p_cycles, p_writeCalls,
                   p_writeReturns, p_open, p_issued, p_write, p_points>>
    /\ UNCHANGED <<mvars, ptvars>>

\* Ctrl-C: KeyboardInterrupt is raised in the main thread while it waits in
\* one of the loop's blocking calls (the ping, the store write, the sleep).
\* It is not an Exception, so neither line 57 nor line 81 catches it; the
\* finally block of write_to_influx runs on the way out; line 105 ends the
\* loop.
PInterrupt ==
    /\ p_pc \in {"probe", "write", "sleep"}
    /\ p_pc' = "done"
    /\ p_exit' = "interrupt"
    /\ p_open' = IF p_pc = "write" THEN pinger_release(p_open, TRUE)
                 ELSE p_open
    /\ p_write' = IF p_pc = "write" THEN "interrupted" ELSE p_write
    /\ UNCHANGED <<p_cfg, now, start_time, p_timestamp, p_success,
                   p_response_time, p_cycles, p_writeCalls, p_writeReturns,
                   p_issued, p_points>>
    /\ UNCHANGED <<mvars, ptvars>>

\* The steps main() takes on its own: every blocking call returns.
PRun ==
    \/ PStart
    \/ PLoop
    \/ PProbe
    \/ POpen
    \/ PWrite
    \/ PSleep

PNext ==
    \/ PRun
    \/ PInterrupt

\* Lines 32-59 as one call: ping_target(TARGET) runs to its return or to the
\* exception that leaves it.
PTCall ==
    /\ pt_pc = "call"
    /\ pt_return' = ping_target(pt_result)
    /\ pt_pc' = "returned"
    /\ UNCHANGED pt_result
    /\ UNCHANGED <<mvars, pvars>>

PTNext == PTCall

(***************************************************************************)
(* Specifications                                                          *)
(***************************************************************************)
\* main.py starts with some configuration file; pinger.py is not running.
InitMain ==
    /\ m_pc = "start"
    /\ lol_api_key \in {"", "RGAPI-key"}
    /\ lol_puuid \in {None, "P-configured"}
    /\ lol_region \in Regions
    /\ game_name \in {None, "itZzosku"}
    /\ tag_line \in {None, "EUW"}
    /\ m_outcome = "running"
    /\ m_resolveCalls = 0
    /\ m_statusCalls = 0
    /\ m_resolve = NotCalled
    /\ m_gate = NotCalled
    /\ m_probeCalls = 0
    /\ m_probe = NotCalled
    /\ m_writeCalls = 0
    /\ m_open = {}
    /\ m_issued = 0
    /\ m_write = "none"
    /\ m_points = {}
    /\ p_pc = "idle"
    /\ p_cfg = [conn |-> TRUE, bucket |-> TRUE]
    /\ now = 0
    /\ start_time = 0
    /\ p_timestamp = 0
    /\ p_success = FALSE
    /\ p_response_time = <<>>
    /\ p_exit = "running"
    /\ p_cycles = 0
    /\ p_writeCalls = 0
    /\ p_writeReturns = 0
    /\ p_open = {}
    /\ p_issued = 0
    /\ p_write = "none"
    /\ p_points = {}
    /\ pt_pc = "idle"
    /\ pt_result = [kind |-> "oserror"]
    /\ pt_return = NotCalled

\* pinger.py starts with some configuration file and clock reading; main.py
\* is not running.
InitPinger ==
    /\ p_pc = "start"
    /\ p_cfg \in PingerConfigs
    /\ now \in 0..1
    /\ start_time = 0
    /\ p_timestamp = 0
    /\ p_success = FALSE
    /\ p_response_time = <<>>
    /\ p_exit = "running"
    /\ p_cycles = 0
    /\ p_writeCalls = 0
    /\ p_writeReturns = 0
    /\ p_open = {}
    /\ p_issued = 0
    /\ p_write = "none"
    /\ p_points = {}
    /\ m_pc = "idle"
    /\ lol_api_key = ""
    /\ lol_puuid = None
    /\ lol_region = "euw1"
    /\ game_name = None
    /\ tag_line = None
    /\ m_outcome = "running"
    /\ m_resolveCalls = 0
    /\ m_statusCalls = 0
    /\ m_resolve = NotCalled
    /\ m_gate = NotCalled
    /\ m_probeCalls = 0
    /\ m_probe = NotCalled
    /\ m_writeCalls = 0
    /\ m_open = {}
    /\ m_issued = 0
    /\ m_write = "none"
    /\ m_points = {}
    /\ pt_pc = "idle"
    /\ pt_result = [kind |-> "oserror"]
    /\ pt_return = NotCalled

\* ping_target is called once, on its own, with subprocess.run behaving in
\* some way; neither program's main() is running.
InitPingTarget ==
    /\ pt_pc = "call"
    /\ pt_result \in PingOutcomes
    /\ pt_return = NotCalled
    /\ m_pc = "idle"
    /\ lol_api_key = ""
    /\ lol_puuid = None
    /\ lol_region = "euw1"
    /\ game_name = None
    /\ tag_line = None
    /\ m_outcome = "running"
    /\ m_resolveCalls = 0
    /\ m_statusCalls = 0
    /\ m_resolve = NotCalled
    /\ m_gate = NotCalled
    /\ m_probeCalls = 0
    /\ m_probe = NotCalled
    /\ m_writeCalls = 0
    /\ m_open = {}
    /\ m_issued = 0
    /\ m_write = "none"
    /\ m_points = {}
    /\ p_pc = "idle"
    /\ p_cfg = [conn |-> TRUE, bucket |-> TRUE]
    /\ now = 0
    /\ start_time = 0
    /\ p_timestamp = 0
    /\ p_success = FALSE
    /\ p_response_time = <<>>
    /\ p_exit = "running"
    /\ p_cycles = 0
    /\ p_writeCalls = 0
    /\ p_writeReturns = 0
    /\ p_open = {}
    /\ p_issued = 0
    /\ p_write = "none"
    /\ p_points = {}

\* One run of main.py.
SpecMain == InitMain /\ [][MNext]_vars

\* One run of main.py in which every external call returns: a step main()
\* can take is eventually taken.
SpecMainFair == SpecMain /\ WF_vars(MNext)

\* One run of pinger.py.
SpecPinger == InitPinger /\ [][PNext]_vars

\* One run of pinger.py in which every blocking call returns: a step main()
\* can take is eventually taken.
SpecPingerFair == SpecPinger /\ WF_vars(PRun)

\* One call of ping_target.
SpecPingTarget == InitPingTarget /\ [][PTNext]_vars

\* One run of either program, or one call of ping_target.
Init == InitMain \/ InitPinger \/ InitPingTarget

Next == MNext \/ PNext \/ PTNext

Spec == Init /\ [][Next]_vars

(***************************************************************************)
(* Properties                                                              *)
(***************************************************************************)
Is200(resp) == resp.kind = "status" /\ resp.code = 200

FailedWrites == {"build_failed", "store_failed"}

\* C1: the status check returns True exactly when the status query completes
\* with HTTP 200; for 404, any other status and a network error it returns
\* False, and no exception leaves it.
C1_GateFailOpen ==
    m_gate.called =>
        /\ ~m_gate.result.raised
        /\ m_gate.result.ret <=> Is200(m_gate.resp)
        /\ m_outcome # "gate_error"

\* A network error was answered with False and the run went on to the probe.
C1_Witness ==
    /\ m_gate.called
    /\ m_gate.resp.kind = "neterr"
    /\ ~m_gate.result.raised
    /\ ~m_gate.result.ret
    /\ m_pc = "probe"

\* C2: in a run where a key and an identifier are available and the status
\* query returns 200, run_speedtest and write_to_influx are never called and
\* nothing is written to the store.
C2_SuppressedCycleDoesNothing ==
    (m_gate.called /\ Is200(m_gate.resp)) =>
        /\ m_pc = "done"
        /\ m_outcome = "suppressed"
        /\ m_probeCalls = 0
        /\ m_writeCalls = 0
        /\ m_issued = 0
        /\ m_points = {}

\* The gate answered 200 for an identifier fetched in this run.
C2_Witness ==
    /\ m_gate.called
    /\ Is200(m_gate.resp)
    /\ lol_puuid = "P-fetched"
    /\ m_outcome = "suppressed"

\* C3: a failed probe does not end the loop.  The probe step always hands
\* its result to the sink stage unless the user interrupts it; the sleep
\* that follows lasts INTERVAL; the loop test after a cycle whose probe
\* failed starts the next cycle whenever the duration has not expired; and
\* with the connection settings present the loop never ends on an error.
C3_ProbeFailureIsolated ==
    /\ [][ /\ (p_pc = "probe" /\ p_pc' # "probe")
                => (p_pc' = "open" \/ p_exit' = "interrupt")
           /\ (p_pc = "sleep" /\ p_pc' = "loop") => now' = now + INTERVAL
           /\ (p_pc = "loop" /\ p_cycles > 0 /\ ~p_success
                 /\ (now - start_time) < DURATION)
                => (p_pc' = "probe" /\ p_cycles' = p_cycles + 1) ]_vars
    /\ [](p_cfg.conn => p_exit # "error")

\* A second cycle has started after a cycle whose probe failed.
C3_Witness ==
    /\ p_pc = "probe"
    /\ p_cycles >= 2
    /\ ~p_success
    /\ p_writeReturns = p_cycles - 1

\* C4: the loop ends only on cancellation or on duration expiry; no other
\* error of a cycle ends it.
C4_OnlyCancelOrExpiryEndsLoop ==
    p_pc = "done" => p_exit \in {"interrupt", "duration"}

\* C5: when the bandwidth probe fails, main() catches the failure and
\* returns without calling write_to_influx: nothing is written and no
\* exception leaves main().
C5_ProbeFailureSkipsCycle ==
    (m_probe.called /\ m_probe.result.raised) =>
        /\ m_pc = "done"
        /\ m_outcome = "probe_failed"
        /\ m_writeCalls = 0
        /\ m_issued = 0
        /\ m_points = {}

\* The probe printed a document without server.location: the KeyError is
\* not one run_speedtest converts, and main() still caught it.
C5_Witness ==
    /\ m_probe.called
    /\ m_probe.result.raised
    /\ m_probe.result.exc = "KeyError"
    /\ m_outcome = "probe_failed"

\* C6: a write that fails inside the try block of write_to_influx (the point
\* cannot be built, or the store fails) is caught there: the call returns
\* normally to its caller and has issued at most one write.
C6_WriteFailureContained ==
    [][ /\ (m_pc = "write_point" /\ m_write' \in FailedWrites)
             => (m_outcome' = "write_returned" /\ m_issued' <= 1)
        /\ (p_pc = "write" /\ p_write' \in FailedWrites)
             => (/\ p_pc' = "sleep"
                 /\ p_writeReturns' = p_writeReturns + 1
                 /\ p_issued' <= 1
                 /\ p_exit' = "running") ]_vars

\* A store failure in the latency loop was followed by a later cycle.
C6_Witness ==
    /\ p_write = "store_failed"
    /\ p_pc = "probe"
    /\ p_cycles >= 2
    /\ p_writeReturns = p_writeCalls

\* C7: outside a write_to_influx call no store connection is open, whatever
\* way the calls so far ended.
C7_ConnectionsReleased ==
    /\ m_pc # "write_point" => m_open = {}
    /\ p_pc # "write" => p_open = {}

\* The second write of the latency loop failed and its connection is closed.
C7_Witness ==
    /\ p_writeCalls >= 2
    /\ p_write = "store_failed"
    /\ p_pc = "sleep"
    /\ p_open = {}

\* C8 as stated: every write_to_influx call that has returned issued exactly
\* one point write.
C8_ExactlyOnePerCall ==
    /\ m_outcome = "write_returned" => m_issued = 1
    /\ (p_pc \in {"sleep", "loop", "probe"} /\ p_writeCalls > 0)
          => p_issued = 1

\* C8 amended: a write_to_influx call issues at most one point write, and
\* exactly one when it got as far as the write (connection opened, point
\* built): none when the set-up before the try block raised or the point
\* could not be built.  The store accepts at most what was issued, and the
\* only point a step of the loop can add is the one of the cycle in progress.
C8_AtMostOnePerCall ==
    /\ [](/\ m_issued <= 1
          /\ p_issued <= 1
          /\ Cardinality(m_points) <= m_issued
          /\ (m_pc = "done" /\ m_writeCalls > 0)
                => (m_issued = 1 <=> m_write \in {"written", "store_failed"})
          /\ (p_pc \in {"sleep", "loop", "probe"} /\ p_writeCalls > 0)
                => (p_issued = 1 <=> p_write \in {"written", "store_failed"}))
    /\ [][ /\ p_pc # "write" => p_points' = p_points
           /\ p_points' \subseteq
                p_points \cup {ping_point(p_timestamp, p_success,
                                          p_response_time)} ]_vars

\* A call ended without issuing a write: the document lacked a member.
C8_Witness ==
    /\ m_pc = "done"
    /\ m_writeCalls = 1
    /\ m_write = "build_failed"
    /\ m_issued = 0

\* C9: when the loop ends on an interrupt, every cycle that started its probe
\* has had its write_to_influx call return.
C9_InterruptNeverMidCycle ==
    p_exit = "interrupt" => p_writeReturns = p_cycles

\* C10: a cycle starts only while the elapsed time is below DURATION; at the
\* loop test with the duration reached the loop ends; when it ends on the
\* duration every cycle started has had its write call return; and when every
\* blocking call returns the loop reaches its end.
C10_DurationBoundsLoop ==
    /\ [][ /\ (p_pc = "loop" /\ p_pc' = "probe")
                => (now - start_time) < DURATION
           /\ (p_pc = "loop" /\ (now - start_time) >= DURATION)
                => (p_pc' = "done" /\ p_exit' = "duration"
                    /\ p_cycles' = p_cycles) ]_vars
    /\ [](p_exit = "duration"
            => (/\ (now - start_time) >= DURATION
                /\ p_writeReturns = p_cycles))
    /\ <>(p_pc = "done")

\* The loop ended on the duration after at least two full cycles.
C10_Witness ==
    /\ p_pc = "done"
    /\ p_exit = "duration"
    /\ p_cycles >= 2
    /\ p_writeReturns = p_cycles

\* The configuration gives the gate nothing to work with: no API key, or
\* neither an identifier nor the display name and tag to look one up.
NoGateCredentials ==
    \/ ~Truthy(lol_api_key)
    \/ (~Truthy(lol_puuid) /\ ~(Truthy(game_name) /\ Truthy(tag_line)))

\* main() got past reading its configuration and has returned or raised.
MainFinished == m_pc = "done" /\ m_outcome # "config_error"

\* C11: without gate credentials no lookup and no status request is ever
\* issued, the run is never suppressed, and a finished run has invoked the
\* probe once and, when the probe delivered a document, write_to_influx once.
C11_NoCredentialsNeverGated ==
    NoGateCredentials =>
        /\ m_resolveCalls = 0
        /\ m_statusCalls = 0
        /\ m_resolve = NotCalled
        /\ m_gate = NotCalled
        /\ m_outcome \notin {"suppressed", "region_error", "gate_error"}
        /\ MainFinished =>
              /\ m_probeCalls = 1
              /\ m_probe.called
              /\ ~m_probe.result.raised => m_writeCalls = 1

\* An identifier is configured but no API key: the run measured and wrote
\* without asking the status service.
C11_Witness ==
    /\ ~Truthy(lol_api_key)
    /\ Truthy(lol_puuid)
    /\ m_pc = "done"
    /\ m_statusCalls = 0
    /\ m_probeCalls = 1
    /\ m_write = "written"

\* The account lookup was made and ended in a status other than 200 or in a
\* network error.
ResolutionFailed ==
    /\ m_resolve.called
    /\ ~m_resolve.result.raised
    /\ ~Is200(m_resolve.resp)

\* C12: at most one lookup request is issued in a run; a step issues one only
\* when no identifier is configured and a display name and a tag are; after a
\* lookup that ended in a non-200 status or a network error there is no
\* second lookup, no status request, no suppression, and the finished run
\* has invoked the probe.
C12_ResolutionOnceNoRetry ==
    /\ [](m_resolveCalls <= 1)
    /\ [][ m_resolveCalls' # m_resolveCalls
             => (/\ ~Truthy(lol_puuid)
                 /\ Truthy(game_name)
                 /\ Truthy(tag_line)
                 /\ m_resolveCalls = 0) ]_vars
    /\ [](ResolutionFailed =>
            /\ m_resolveCalls = 1
            /\ ~Truthy(lol_puuid)
            /\ m_statusCalls = 0
            /\ m_gate = NotCalled
            /\ m_outcome # "suppressed"
            /\ MainFinished => (m_probeCalls = 1 /\ m_probe.called))

\* The lookup ended in a network error and the run went on to measure and
\* write.
C12_Witness ==
    /\ m_resolve.called
    /\ m_resolve.resp = NetworkError
    /\ m_resolveCalls = 1
    /\ m_pc = "done"
    /\ m_statusCalls = 0
    /\ m_write = "written"

\* C13: with a region code outside REGIONAL_ROUTING, no status request, no
\* probe and no write happens, and the run ends in an error raised at
\* startup, whatever the other gate settings are.
C13_UnknownRegionFailsAtStartup ==
    lol_region \notin DOMAIN REGIONAL_ROUTING =>
        /\ m_statusCalls = 0
        /\ m_probeCalls = 0
        /\ m_writeCalls = 0
        /\ m_pc = "done" => m_outcome \in {"config_error", "region_error"}

RoutingDomains ==
    {"americas.api.riotgames.com", "europe.api.riotgames.com",
     "asia.api.riotgames.com"}

\* C14: whenever the account lookup has called get_regional_domain, a region
\* of the table gave one of the three routing domains and the request went
\* to it, and a region outside the table gave a ValueError and no request;
\* over the whole table exactly the three domains occur.
C14_RegionalDomainTotalOnTable ==
    /\ m_resolve.called =>
          IF lol_region \in DOMAIN REGIONAL_ROUTING
          THEN /\ ~m_resolve.result.raised
               /\ m_resolve.result.host \in RoutingDomains
               /\ m_resolve.result.host = get_regional_domain(lol_region).ret
          ELSE /\ m_resolve.result.raised
               /\ m_resolve.result.exc = "ValueError"
               /\ m_resolve.result.requests = 0
               /\ m_outcome = "region_error"
    /\ Cardinality({get_regional_domain(r) :
                       r \in DOMAIN REGIONAL_ROUTING}) = 3

\* The lookup was attempted with a region the table does not list, and the
\* ValueError ended the run before any request.
C14_Witness ==
    /\ m_resolve.called
    /\ lol_region = "EUW1"
    /\ m_resolve.result.raised
    /\ m_resolveCalls = 0
    /\ m_pc = "done"

\* The pair (False, None).
FalseNone(ret) == ~ret.raised /\ ~ret.success /\ ret.response_time = <<>>

\* Some line of the output carries the marker "time=".
HasMarker(stdout) == \E i \in 1..Len(stdout) : stdout[i].marker

\* C15: a call of ping_target ends by returning, never by an exception; a
\* command that could not be started or exited non-zero gives (False, None)
\* whatever it printed; exit code zero without a marker gives (False, None);
\* and success is True, with a number as response time, only when the exit
\* code is zero and the first line with a marker carries a number after it.
C15_PingTargetTotal ==
    pt_pc = "returned" =>
        /\ ~pt_return.raised
        /\ pt_result.kind = "oserror" => FalseNone(pt_return)
        /\ (pt_result.kind = "exit" /\ pt_result.returncode # 0)
              => FalseNone(pt_return)
        /\ (/\ pt_result.kind = "exit"
            /\ pt_result.returncode = 0
            /\ ~HasMarker(pt_result.stdout)) => FalseNone(pt_return)
        /\ ~pt_return.success => pt_return.response_time = <<>>
        /\ pt_return.success =>
              /\ pt_result.kind = "exit"
              /\ pt_result.returncode = 0
              /\ \E i \in 1..Len(pt_result.stdout) :
                    /\ pt_result.stdout[i].marker
                    /\ \A j \in 1..(i - 1) : ~pt_result.stdout[j].marker
                    /\ pt_result.stdout[i].token \in {"23.4", "5ms"}
              /\ Len(pt_return.response_time) = 1
              /\ pt_return.response_time[1] \in {Float(234, 10), Float(5, 1)}

\* Exit code zero, a line without the marker and then "time=23.4 ms": the
\* call returned (True, 23.4).
C15_Witness ==
    /\ pt_pc = "returned"
    /\ pt_result.kind = "exit"
    /\ pt_result.returncode = 0
    /\ Len(pt_result.stdout) = 2
    /\ ~pt_result.stdout[1].marker
    /\ pt_return.success
    /\ pt_return.response_time = <<Float(234, 10)>>

\* A latency record: success is 0 or 1, and the response time is a number
\* when success is 1 and None when it is 0.
WellFormedLatencyRecord(point) ==
    /\ point.success \in {0, 1}
    /\ point.success = 1 =>
          /\ Len(point.response_time) = 1
          /\ point.response_time[1] \in {Float(234, 10), Float(5, 1)}
    /\ point.success = 0 => point.response_time = <<>>

\* C16: every point the store has accepted, and the point write_to_influx is
\* about to build from the probe's result and hand to the store (accepted or
\* not), is a well-formed latency record.
C16_LatencyRecordsWellFormed ==
    /\ \A point \in p_points : WellFormedLatencyRecord(point)
    /\ p_pc \in {"open", "write"} =>
          WellFormedLatencyRecord(
              ping_point(p_timestamp, p_success, p_response_time))

\* The store holds a record of a failed ping and a record of a successful
\* one.
C16_Witness ==
    /\ \E point \in p_points :
          point.success = 0 /\ point.response_time = <<>>
    /\ \E point \in p_points :
          point.success = 1 /\ point.response_time = <<Float(5, 1)>>

\* The float mbps is bandwidth * 8 / 1,000,000.
IsMbpsOf(mbps, bandwidth) ==
    /\ mbps.den > 0
    /\ mbps.num * 1000000 = bandwidth * 8 * mbps.den
    /\ bandwidth = 1000000 => mbps = [num |-> 8, den |-> 1]

\* The point is normalized from the probe document as described.
NormalizedFrom(point, data) ==
    /\ data.packetLoss = <<>> => point.packet_loss = [num |-> 0, den |-> 1]
    /\ data.packetLoss # <<>> =>
          point.packet_loss = [num |-> data.packetLoss[1], den |-> 1]
    /\ IsMbpsOf(point.download_bandwidth_mbps, data.download)
    /\ IsMbpsOf(point.upload_bandwidth_mbps, data.upload)

\* C17: the point write_to_influx builds from the probe's document, and
\* every point the store accepted, has packet_loss 0.0 when the document has
\* no packetLoss, and download and upload Mbps equal to the bandwidth in
\* bytes per second times 8 divided by 1,000,000 (8.0 for 1,000,000).
C17_BandwidthNormalization ==
    /\ (m_pc = "write_point"
          /\ ~speed_point(m_probe.result.ret).raised) =>
             NormalizedFrom(speed_point(m_probe.result.ret).ret,
                            m_probe.result.ret)
    /\ \A point \in m_points : NormalizedFrom(point, m_probe.result.ret)

\* A document without packetLoss, 1,000,000 bytes/s down and 125,000 up was
\* written as 0.0, 8.0 and 1.0.
C17_Witness ==
    /\ m_write = "written"
    /\ m_probe.result.ret.packetLoss = <<>>
    /\ m_probe.result.ret.download = 1000000
    /\ m_probe.result.ret.upload = 125000
    /\ \E point \in m_points :
          /\ point.packet_loss = [num |-> 0, den |-> 1]
          /\ point.download_bandwidth_mbps = [num |-> 8, den |-> 1]
          /\ point.upload_bandwidth_mbps = [num |-> 1, den |-> 1]

\* The account lookup was answered with HTTP 200 and a body without a
\* "puuid" member.
ResolvedWithoutIdentifier ==
    /\ m_resolve.called
    /\ ~m_resolve.result.raised
    /\ Is200(m_resolve.resp)
    /\ m_resolve.resp.puuid = None

\* C18: after a lookup answered with 200 and no "puuid" member the run has no
\* identifier: no status request is issued, the run is not suppressed, and
\* the finished run has invoked the probe and, when the probe delivered a
\* document, write_to_influx.
C18_EmptyResolutionIsUnresolved ==
    ResolvedWithoutIdentifier =>
        /\ m_resolve.result.ret = None
        /\ lol_puuid = None
        /\ m_statusCalls = 0
        /\ m_gate = NotCalled
        /\ m_outcome \notin {"suppressed", "gate_error", "region_error"}
        /\ m_pc = "done" =>
              /\ m_probeCalls = 1
              /\ m_probe.called
              /\ ~m_probe.result.raised => m_writeCalls = 1

\* Such a lookup happened and the run measured and wrote.
C18_Witness ==
    /\ ResolvedWithoutIdentifier
    /\ m_pc = "done"
    /\ m_statusCalls = 0
    /\ m_probeCalls = 1
    /\ m_write = "written"

\* The run was suppressed by the gate: no probe, no write.
EndedSuppressed ==
    /\ m_outcome = "suppressed"
    /\ m_probeCalls = 0
    /\ m_writeCalls = 0
    /\ m_issued = 0

\* The probe failed: no write.
EndedProbeFailed ==
    /\ m_outcome = "probe_failed"
    /\ m_probeCalls = 1
    /\ m_probe.result.raised
    /\ m_writeCalls = 0
    /\ m_issued = 0

\* The probe succeeded and write_to_influx was called once.
EndedAfterWrite ==
    /\ m_outcome \in {"write_returned", "write_raised"}
    /\ m_probeCalls = 1
    /\ ~m_probe.result.raised
    /\ m_writeCalls = 1
    /\ m_issued <= 1

\* C19: a run of main() whose external calls return reaches its end; with a
\* configuration that could be read and a region of the table it ends in
\* exactly one of: suppressed with no probe and no write, probe failed with
\* no write, probe succeeded and one call of write_to_influx; and
\* write_to_influx is never called unless the probe of this run succeeded.
C19_ThreeOutcomes ==
    /\ <>(m_pc = "done")
    /\ [](m_writeCalls > 0 =>
            (m_writeCalls = 1 /\ m_probe.called /\ ~m_probe.result.raised))
    /\ []((/\ m_pc = "done"
           /\ m_outcome # "config_error"
           /\ lol_region \in DOMAIN REGIONAL_ROUTING) =>
            /\ EndedSuppressed \/ EndedProbeFailed \/ EndedAfterWrite
            /\ ~(EndedSuppressed /\ EndedProbeFailed)
            /\ ~(EndedSuppressed /\ EndedAfterWrite)
            /\ ~(EndedProbeFailed /\ EndedAfterWrite))

\* A run with a region of the table asked the status service, measured, and
\* ended after one call of write_to_influx whose write the store refused.
C19_Witness ==
    /\ m_pc = "done"
    /\ lol_region \in DOMAIN REGIONAL_ROUTING
    /\ m_gate.called
    /\ EndedAfterWrite
    /\ m_write = "store_failed"

====
